---- MODULE Spec2Model ----
(***************************************************************************)
(* A state-machine model of the FileRenamer component                      *)
(* (src/src/components/FileRenamer.tsx, first revision, lines 1-1290):     *)
(* file intake (onDrop), removal, clearing, base-name input, type filter,  *)
(* the naming engine (handleRename) and the archive builder               *)
(* (handleDownload, an asynchronous run whose reads complete in any order).*)
(*                                                                         *)
(* Strings are TLA+ strings; Len, SubSeq and \o act on them as on          *)
(* sequences of characters.  A record of the list is identified by its     *)
(* position in `files`: the code compares records by object identity       *)
(* (includes / indexOf), and within one handler every record object of     *)
(* filteredFiles is the object at one position of files.                   *)
(* Presentation-only state (isDragging, isRenaming, showHistory, showHelp, *)
(* showAnalytics), lastModified and the HistoryEntry timestamp are left    *)
(* out: no handler reads them.                                             *)
(***************************************************************************)
EXTENDS Integers, Sequences, FiniteSets, TLC

VARIABLES
  files,             \* useState<FileWithPreview[]>: the live record list
  baseFileName,      \* useState(""): the stored base name
  selectedFileType,  \* useState("all"): the active type filter
  history,           \* useState<HistoryEntry[]>: the rename ledger, newest first
  error,             \* useState<string|null>: the error banner
  toast,             \* the notification emitted by the last handler (showToast)
  uploadProgress,    \* useState<{[key]: number}>: progress map
  progressIntervals, \* useRef: registry file name -> progress timer
  revokedUrls,       \* object URLs on which URL.revokeObjectURL was called
  nextUrl,           \* the next object URL that URL.createObjectURL hands out
  runs,              \* the handleDownload invocations and their closures
  analytics,         \* useState<Analytics>: the analytics snapshot
  storage,           \* localStorage: the items under the component's two keys
  week,              \* the clock: what getWeekStartDate() returns now
  uncaught,          \* an error left an effect uncaught: the component tree is unmounted
  ops,               \* handler invocations left to explore (the model's depth bound)
  last               \* the last step taken: handler or callback, and its argument

vars == <<files, baseFileName, selectedFileType, history, error, toast,
          uploadProgress, progressIntervals, revokedUrls, nextUrl, runs,
          analytics, storage, week, uncaught, ops, last>>

----------------------------------------------------------------------------
(* Program constants *)

\* const MAX_FILE_SIZE = 100 * 1024 * 1024
MAX_FILE_SIZE == 104857600
\* const MAX_FILES = 20
MAX_FILES == 20
\* file.size > 1024 * 1024 starts the cosmetic progress timer
PROGRESS_THRESHOLD == 1048576
\* prev.slice(0, 49)
HISTORY_KEEP == 49
\* const chunkSize = 5
chunkSize == 5

(* Bounds of the model *)

\* handler invocations explored from the initial state
MaxOps == 4
\* files per dropped batch in the small-input specification
MaxBatch == 2
\* handleDownload runs per behaviour
MaxRuns == 1
\* handler invocations explored in the limit specification
MaxOpsLimit == 5
\* handler invocations explored in the archive specification
MaxOpsArchive == 7
\* handler invocations explored in the ledger specification
MaxOpsLedger == 4
\* handler invocations explored in the type specification
MaxOpsTypes == 3
\* handler invocations explored in the overlap specification
MaxOpsOverlap == 4
\* handleDownload runs per behaviour in the overlap specification
MaxRunsOverlap == 2
\* handler invocations explored in the startup specification
MaxOpsStartup == 3
\* handler invocations explored in the intake specification
MaxOpsIntake == 4
\* handler invocations explored in the chunk specification
MaxOpsChunks == 4
\* files per batch of the chunk specification: more than one chunk
ChunkBatchLen == 6

\* JavaScript's undefined for the optional fields preview (0) and newName
Undefined == "#undefined"
NoUrl == 0

----------------------------------------------------------------------------
(* String helpers: what the JavaScript string methods compute *)

Min(a, b) == IF a < b THEN a ELSE b

CharAt(s, i) == SubSeq(s, i, i)

\* String.prototype.startsWith
StartsWith(s, p) == Len(p) <= Len(s) /\ SubSeq(s, 1, Len(p)) = p

\* String.prototype.includes
Includes(s, p) ==
  \E i \in 1..(Len(s) - Len(p) + 1) : SubSeq(s, i, i + Len(p) - 1) = p

\* name.split("."): the segments between the dots, left to right
RECURSIVE SplitFrom(_, _, _)
SplitFrom(s, i, cur) ==
  IF i > Len(s) THEN <<cur>>
  ELSE IF CharAt(s, i) = "." THEN <<cur>> \o SplitFrom(s, i + 1, "")
  ELSE SplitFrom(s, i + 1, cur \o CharAt(s, i))

SplitDot(s) == SplitFrom(s, 1, "")

\* Array.prototype.pop on the split: its last segment
Pop(segs) == segs[Len(segs)]

\* file.name.split(".").pop() || "": the last segment of the split; the || ""
\* only replaces an empty last segment by the empty string
Extension(name) ==
  LET popped == Pop(SplitDot(name)) IN IF popped = "" THEN "" ELSE popped

\* `${baseFileName}_${index + 1}.${extension}`, index zero-based
NewName(base, index, extension) ==
  base \o "_" \o ToString(index + 1) \o "." \o extension

UpperChars == "ABCDEFGHIJKLMNOPQRSTUVWXYZ"
LowerChars == "abcdefghijklmnopqrstuvwxyz"

LowerChar(c) ==
  IF \E k \in 1..Len(UpperChars) : CharAt(UpperChars, k) = c
  THEN CharAt(LowerChars, CHOOSE k \in 1..Len(UpperChars) : CharAt(UpperChars, k) = c)
  ELSE c

\* String.prototype.toLowerCase
RECURSIVE ToLowerCase(_)
ToLowerCase(s) ==
  IF s = "" THEN "" ELSE LowerChar(CharAt(s, 1)) \o ToLowerCase(SubSeq(s, 2, Len(s)))

\* value.replace(/[<>:"/\\|?*]/g, "")
IllegalChars == {"<", ">", ":", "\"", "/", "\\", "|", "?", "*"}

RECURSIVE StripIllegal(_)
StripIllegal(s) ==
  IF s = "" THEN ""
  ELSE (IF CharAt(s, 1) \in IllegalChars THEN "" ELSE CharAt(s, 1))
         \o StripIllegal(SubSeq(s, 2, Len(s)))

\* String.prototype.trim (white space is the blank and the tab here)
WhiteSpace == {" ", "\t"}

RECURSIVE TrimLeft(_)
TrimLeft(s) ==
  IF s # "" /\ CharAt(s, 1) \in WhiteSpace THEN TrimLeft(SubSeq(s, 2, Len(s))) ELSE s

RECURSIVE TrimRight(_)
TrimRight(s) ==
  IF s # "" /\ CharAt(s, Len(s)) \in WhiteSpace
  THEN TrimRight(SubSeq(s, 1, Len(s) - 1)) ELSE s

Trim(s) == TrimRight(TrimLeft(s))

\* mutant: the value is trimmed but its illegal characters are kept
SanitizeNoStrip(value) == Trim(value)

\* handleBaseNameChange's value -> stored base name
SanitizeBaseName(value) == Trim(StripIllegal(value))

----------------------------------------------------------------------------
(* Intake: type resolution and classification *)

\* getFileType: the browser-supplied type, else a lookup on the extension
getFileType(file) ==
  IF file.type = "" THEN
    LET ext == ToLowerCase(Pop(SplitDot(file.name))) IN
      CASE ext \in {"jpg", "jpeg", "png", "gif"} -> "image/" \o ext
        [] ext \in {"mp4", "webm"} -> "video/" \o ext
        [] ext \in {"mp3", "wav"} -> "audio/" \o ext
        [] ext = "pdf" -> "application/pdf"
        [] ext \in {"doc", "docx"} -> "application/msword"
        [] ext \in {"xls", "xlsx"} -> "application/vnd.ms-excel"
        [] OTHER -> "application/octet-stream"
  ELSE file.type

GroupNames == {"images", "videos", "audio", "documents", "others"}

IsDocumentType(t) ==
  Includes(t, "pdf") \/ Includes(t, "word") \/ Includes(t, "excel")
    \/ Includes(t, "text/plain")

\* the filter predicate of fileGroups[group]
InGroup(t, group) ==
  CASE group = "images" -> StartsWith(t, "image/")
    [] group = "videos" -> StartsWith(t, "video/")
    [] group = "audio" -> StartsWith(t, "audio/")
    [] group = "documents" -> IsDocumentType(t)
    [] group = "others" ->
         /\ ~StartsWith(t, "image/") /\ ~StartsWith(t, "video/")
         /\ ~StartsWith(t, "audio/") /\ ~IsDocumentType(t)
    [] OTHER -> FALSE

\* a set of positions as the increasing sequence of its elements
SortedSeq(S) ==
  [k \in 1..Cardinality(S) |-> CHOOSE i \in S : Cardinality({j \in S : j < i}) = k - 1]

\* fileGroups[group]: files.filter(...), as the positions it keeps, in list order
fileGroups(fs, group) ==
  SortedSeq({p \in 1..Len(fs) : InGroup(fs[p].type, group)})

\* filteredFiles, as positions of `fs`: the whole list under "all", else the
\* group (fileGroups[selectedFileType] || [])
filteredFiles(fs, sel) ==
  IF sel = "all" THEN [p \in 1..Len(fs) |-> p]
  ELSE IF sel \in GroupNames THEN fileGroups(fs, sel) ELSE <<>>

Range(f) == {f[x] : x \in DOMAIN f}

\* filteredFiles.indexOf(file), zero-based, for the record at position p
IndexOf(idx, p) == (CHOOSE k \in 1..Len(idx) : idx[k] = p) - 1

\* the records of the filtered selection, in its order
Selection(fs, sel) ==
  LET idx == filteredFiles(fs, sel) IN [k \in 1..Len(idx) |-> fs[idx[k]]]

----------------------------------------------------------------------------
(* Inputs: the raw files a drop hands to onDrop.  `type` is the type the   *)
(* browser supplies ("" when it knows none), `data` names the bytes and    *)
(* `readable` says whether arrayBuffer() resolves or rejects.              *)

RawFile(name, size, type, data, readable) ==
  [name |-> name, size |-> size, type |-> type, data |-> data, readable |-> readable]

\* the files of the small-input specification
Pool ==
  << RawFile("a.jpg", 2000, "image/jpeg", "A", TRUE),
     RawFile("n.txt", 300, "text/plain", "N", TRUE),
     RawFile("m.txt", 500, "", "M", TRUE),
     RawFile("README", 700, "", "R", TRUE),
     RawFile("max.mov", MAX_FILE_SIZE, "video/quicktime", "X", TRUE),
     RawFile("big.mov", MAX_FILE_SIZE + 1, "video/quicktime", "B", TRUE),
     RawFile("gone.png", 900, "", "G", FALSE) >>

\* the batches of at most MaxBatch consecutive files of a pool
Windows(pool, maxLen) ==
  {SubSeq(pool, i, j) : <<i, j>> \in
     {ij \in (1..Len(pool)) \X (1..Len(pool)) : ij[1] <= ij[2] /\ ij[2] - ij[1] < maxLen}}

Batches == Windows(Pool, MaxBatch)

\* a batch of n plain text files f1.txt .. fn.txt
Uniform(n) ==
  [i \in 1..n |-> RawFile("f" \o ToString(i) \o ".txt", 100 + i, "text/plain",
                          "F" \o ToString(i), TRUE)]

\* the batches of the limit specification: around MAX_FILES
LimitBatches == {SubSeq(Pool, 7, 7), Uniform(MAX_FILES), Uniform(MAX_FILES + 1)}

\* a PDF whose type the platform reports under the alias image/pdf
ScanPdf == RawFile("scan.pdf", 800, "image/pdf", "S", TRUE)

\* a ZIP archive blob
PackZip == RawFile("pack.zip", 4000, "application/zip", "Z", TRUE)

\* the batches of the intake specification: acceptable files around an
\* oversized one, MAX_FILES acceptable files with an oversized one, single files
IntakeBatches ==
  { <<Pool[2], Pool[6], Pool[3]>>,
    Uniform(MAX_FILES) \o <<Pool[6]>>,
    <<ScanPdf>>, <<PackZip>>, <<Pool[7]>> }

\* what localStorage.getItem returns: null, a text that JSON.parse rejects, or
\* the JSON text of a value
NoItem == [kind |-> "null"]
CorruptItem == [kind |-> "corrupt"]
JsonItem(value) == [kind |-> "json", value |-> value]

\* a ledger of n entries as an earlier session stored it, newest first: n
\* renames of one file each, with base name "s"
StoredLedger(n) ==
  [i \in 1..n |-> [oldName |-> "old" \o ToString(i) \o ".txt",
                   newName |-> "s_1.txt",
                   fileType |-> "text/plain"]]

\* the sizes of the stored ledgers of the ledger specification
StoredSizes == {0, HISTORY_KEEP - 1, HISTORY_KEEP, HISTORY_KEEP + 1}

\* the values typed into the base-name input
BaseInputs == {"", "v", " w/ "}

----------------------------------------------------------------------------
(* State *)

Null == "#null"
NoToast == [type |-> "none", message |-> ""]
Toast(type, message) == [type |-> type, message |-> message]

\* Array.prototype.join(", ")
RECURSIVE Join(_)
Join(names) ==
  IF names = <<>> THEN ""
  ELSE IF Len(names) = 1 THEN names[1]
  ELSE names[1] \o ", " \o Join(Tail(names))

CountLimitError ==
  "Cannot add more than " \o ToString(MAX_FILES)
    \o " files at a time. Please process current files first."

OversizeError(fileNames) == "Files exceeding 100MB limit: " \o fileNames

\* the step just taken: the handler or callback, its argument, and the step
\* taken before it
Step(op, arg) == [op |-> op, arg |-> arg, prevOp |-> last.op]

\* the mount effect on the ledger: localStorage.getItem("fileRenameHistory"),
\* and setHistory(JSON.parse(savedHistory)) when there is a stored value; the
\* error JSON.parse throws on a corrupt value is caught and logged
LoadHistory(savedHistory) ==
  IF savedHistory.kind = "json" THEN savedHistory.value ELSE <<>>

\* the effect on [history]: localStorage.setItem("fileRenameHistory",
\* JSON.stringify(history))
SaveHistory(h) == JsonItem(h)

\* getWeekStartDate() at mount: the Sunday of the current week, as yyyy-mm-dd
CurrentWeek == "2026-11-01"

\* getWeekStartDate() once the next week has begun
NextWeekStart == "2026-11-08"

\* file.type.split("/")[0]
TypeFamily(t) ==
  IF \A i \in 1..Len(t) : CharAt(t, i) # "/" THEN t
  ELSE SubSeq(t, 1, (CHOOSE i \in 1..Len(t) :
                       CharAt(t, i) = "/" /\ \A j \in 1..(i - 1) : CharAt(t, j) # "/") - 1)

\* the quotient sum / n of averageFileSize, kept as a fraction; 0 for no file
Average(sum, n) == IF n = 0 THEN <<0, 1>> ELSE <<sum, n>>

RECURSIVE SumSizes(_)
SumSizes(fs) == IF fs = <<>> THEN 0 ELSE fs[1].size + SumSizes(Tail(fs))

\* newAnalytics of the effect on [files, history], which ends with
\* setAnalytics(newAnalytics)
NewAnalytics(fs, h) ==
  [weekStartDate |-> week,
   totalFiles |-> Len(fs),
   totalRenames |-> Len(h),
   fileTypes |-> [f \in {TypeFamily(fs[p].type) : p \in 1..Len(fs)} |->
                   Cardinality({p \in 1..Len(fs) : TypeFamily(fs[p].type) = f})],
   averageFileSize |-> Average(SumSizes(fs), Len(fs)),
   totalDownloads |-> Len(h)]

\* the end of the analytics update effect: the new snapshot is stored only
\* when its week differs from the week of the snapshot in the state
\* (analytics.weekStartDate !== newAnalytics.weekStartDate)
SavedAnalytics(item, old, new) ==
  IF old.weekStartDate # new.weekStartDate THEN JsonItem(new) ELSE item

\* the mount effect on the analytics: a stored snapshot of the current week
\* replaces the state; JSON.parse is called outside any try block
LoadAnalytics(savedAnalytics) ==
  IF savedAnalytics.kind = "json" /\ savedAnalytics.value.weekStartDate = CurrentWeek
  THEN savedAnalytics.value
  ELSE NewAnalytics(<<>>, <<>>)

\* the analytics load effect throws: JSON.parse of a corrupt value
LoadAnalyticsThrows(savedAnalytics) == savedAnalytics.kind = "corrupt"

\* the state after mounting with `savedHistory` and `savedAnalytics` in local
\* storage, and with `budget` handler invocations to explore.  The effects run
\* in the order of their declaration: ledger load, ledger save (of the initial
\* []), analytics update, analytics load.  When the last one throws, the
\* queued state updates are dropped and the tree is unmounted.  Otherwise the
\* loaded ledger is rendered and saved, and as the ledger changed the
\* analytics update effect runs again and replaces a loaded snapshot.
InitWith(budget, savedHistory, savedAnalytics) ==
  /\ files = <<>>
  /\ baseFileName = ""
  /\ selectedFileType = "all"
  /\ week = CurrentWeek
  /\ uncaught = LoadAnalyticsThrows(savedAnalytics)
  /\ history = IF LoadAnalyticsThrows(savedAnalytics) THEN <<>>
               ELSE LoadHistory(savedHistory)
  /\ analytics =
       IF LoadAnalyticsThrows(savedAnalytics) THEN NewAnalytics(<<>>, <<>>)
       ELSE IF savedHistory.kind = "json" THEN NewAnalytics(<<>>, LoadHistory(savedHistory))
       ELSE LoadAnalytics(savedAnalytics)
  /\ storage =
       [fileRenameHistory |->
          IF LoadAnalyticsThrows(savedAnalytics) THEN SaveHistory(<<>>)
          ELSE SaveHistory(LoadHistory(savedHistory)),
        fileRenamerAnalytics |-> savedAnalytics]
  /\ error = Null
  /\ toast = NoToast
  /\ uploadProgress = <<>>
  /\ progressIntervals = <<>>
  /\ revokedUrls = {}
  /\ nextUrl = 1
  /\ runs = <<>>
  /\ ops = budget
  /\ last = [op |-> "init",
             arg |-> [fileRenameHistory |-> savedHistory,
                      fileRenamerAnalytics |-> savedAnalytics],
             prevOp |-> "init"]

----------------------------------------------------------------------------
Init == InitWith(MaxOps, NoItem, NoItem)

(* Effects *)

\* the preview handles of a list of records
Previews(fs) == {fs[p].preview : p \in 1..Len(fs)} \ {NoUrl}

\* Object.values(progressIntervals.current).forEach(clearInterval): every
\* registered timer is cancelled and stays registered
ClearAllIntervals(reg) == [n \in DOMAIN reg |-> [reg[n] EXCEPT !.active = FALSE]]

\* the cleanup of the effect on [files], run when a handler replaced the list:
\* it cancels every registered timer and revokes the previews of the list
\* it closed over (the list before the change)
CleanupRevoked(oldFiles, revoked) == revoked \cup Previews(oldFiles)

----------------------------------------------------------------------------
(* onDrop *)

\* the `files` that onDrop reads: useCallback(..., []) keeps the closure of the
\* first render, where files is the initial useState value []
OnDropFiles == <<>>

\* the number of image files among the first k files of a batch
RECURSIVE ImagesBefore(_, _)
ImagesBefore(batch, k) ==
  IF k = 0 THEN 0
  ELSE ImagesBefore(batch, k - 1)
         + (IF StartsWith(getFileType(batch[k]), "image/") THEN 1 ELSE 0)

\* acceptedFiles.map(...): the new records; the i-th image of the batch gets
\* the i-th object URL created
NewRecords(batch, firstUrl) ==
  [k \in 1..Len(batch) |->
     LET type == getFileType(batch[k]) IN
       [name |-> batch[k].name, size |-> batch[k].size, type |-> type,
        data |-> batch[k].data, readable |-> batch[k].readable,
        preview |-> IF StartsWith(type, "image/")
                    THEN firstUrl + ImagesBefore(batch, k - 1) ELSE NoUrl,
        newName |-> Undefined]]

\* simulateFileUploadProgress for every file of the batch above the threshold:
\* a fresh timer is registered under the file's name
StartTimers(reg, batch) ==
  LET started == {batch[k].name : k \in {j \in 1..Len(batch) : batch[j].size > PROGRESS_THRESHOLD}}
  IN [n \in DOMAIN reg \cup started |->
        IF n \in started THEN [active |-> TRUE, progress |-> 0] ELSE reg[n]]

\* the count check of onDrop
OverCount(acceptedFiles) == Len(OnDropFiles) + Len(acceptedFiles) > MAX_FILES

\* file.size > MAX_FILE_SIZE
IsOversized(file) == file.size > MAX_FILE_SIZE

\* mutant: one oversized file makes onDrop refuse the whole batch
AdmissibleAllOrNothing(acceptedFiles) ==
  IF \E k \in 1..Len(acceptedFiles) : IsOversized(acceptedFiles[k])
  THEN <<>> ELSE acceptedFiles

\* mutant: the size filter off by one, a file of exactly MAX_FILE_SIZE is dropped
AdmissibleOffByOne(acceptedFiles) ==
  SelectSeq(acceptedFiles, LAMBDA f : f.size < MAX_FILE_SIZE)

\* acceptedFiles.filter((file) => file.size <= MAX_FILE_SIZE)
Admissible(acceptedFiles) == SelectSeq(acceptedFiles, LAMBDA f : f.size <= MAX_FILE_SIZE)

OnDrop(acceptedFiles) ==
  /\ ~uncaught
  /\ ops > 0
  /\ ops' = ops - 1
  /\ last' = Step("onDrop", acceptedFiles)
  /\ UNCHANGED week
  /\ UNCHANGED uncaught
  /\ LET oversizedFiles == SelectSeq(acceptedFiles, IsOversized)
         kept == IF oversizedFiles # <<>> THEN Admissible(acceptedFiles)
                 ELSE acceptedFiles
         fileNames == Join([k \in 1..Len(oversizedFiles) |-> oversizedFiles[k].name])
     IN
       IF OverCount(acceptedFiles) THEN
         /\ error' = CountLimitError
         /\ toast' = Toast("error", "Maximum " \o ToString(MAX_FILES)
                             \o " files allowed at a time. Please process current files first.")
         /\ UNCHANGED <<files, progressIntervals, revokedUrls, nextUrl, analytics,
                        storage>>
       ELSE IF oversizedFiles # <<>> /\ kept = <<>> THEN
         /\ error' = OversizeError(fileNames)
         /\ toast' = Toast("error", "Files larger than 100MB are not allowed: " \o fileNames)
         /\ UNCHANGED <<files, progressIntervals, revokedUrls, nextUrl, analytics,
                        storage>>
       ELSE
         /\ files' = files \o NewRecords(kept, nextUrl)
         /\ analytics' = NewAnalytics(files', history)
         /\ storage' = [storage EXCEPT !.fileRenamerAnalytics =
                          SavedAnalytics(@, analytics, analytics')]
         /\ nextUrl' = nextUrl + ImagesBefore(kept, Len(kept))
         /\ progressIntervals' = ClearAllIntervals(StartTimers(progressIntervals, kept))
         /\ revokedUrls' = CleanupRevoked(files, revokedUrls)
         /\ error' = IF oversizedFiles = <<>> THEN Null ELSE OversizeError(fileNames)
         /\ toast' = IF oversizedFiles = <<>> THEN NoToast
                     ELSE Toast("error", "Files larger than 100MB are not allowed: " \o fileNames)
  /\ UNCHANGED <<baseFileName, selectedFileType, history, uploadProgress, runs>>

----------------------------------------------------------------------------
(* handleClearAll, handleRemoveFile, handleBaseNameChange, the filter *)

\* mutant: the timers are cancelled and stay registered
ResetIntervalsKeepRegistry(reg) == ClearAllIntervals(reg)

\* Object.values(progressIntervals.current).forEach(clearInterval);
\* progressIntervals.current = {}
ResetIntervals(reg) == <<>>

HandleClearAll ==
  /\ ~uncaught
  /\ ops > 0
  /\ ops' = ops - 1
  /\ last' = Step("clearAll", 0)
  /\ UNCHANGED week
  /\ UNCHANGED uncaught
  /\ IF Len(files) = 0 THEN
       /\ toast' = Toast("error", "No files to clear!")
       /\ UNCHANGED <<files, baseFileName, selectedFileType, uploadProgress,
                      progressIntervals, revokedUrls, analytics, storage>>
     ELSE
       /\ revokedUrls' = CleanupRevoked(files, revokedUrls \cup Previews(files))
       /\ progressIntervals' = ResetIntervals(progressIntervals)
       /\ files' = <<>>
       /\ analytics' = NewAnalytics(files', history)
       /\ storage' = [storage EXCEPT !.fileRenamerAnalytics =
                        SavedAnalytics(@, analytics, analytics')]
       /\ baseFileName' = ""
       /\ uploadProgress' = <<>>
       /\ selectedFileType' = "all"
       /\ toast' = Toast("success", "All files cleared successfully!")
  /\ UNCHANGED <<history, error, nextUrl, runs>>

\* a function without one key: delete obj[key]
Without(f, key) == [k \in DOMAIN f \ {key} |-> f[k]]

\* files.filter((_, i) => i !== index), index zero-based
RemoveAt(fs, index) ==
  [p \in 1..(Len(fs) - 1) |-> IF p - 1 < index THEN fs[p] ELSE fs[p + 1]]

\* the zero-based index into `files` that handleRemoveFile(index) uses:
\* files[index] and files.filter((_, i) => i !== index)
RemovedIndex(index) == index

\* index is the position of the clicked card in the grid, which renders
\* filteredFiles.map((file, index) => ...)
HandleRemoveFile(index) ==
  /\ ~uncaught
  /\ ops > 0
  /\ index \in 0..(Len(filteredFiles(files, selectedFileType)) - 1)
  /\ ops' = ops - 1
  /\ last' = Step("removeFile", index)
  /\ UNCHANGED week
  /\ UNCHANGED uncaught
  /\ LET removedFile == files[RemovedIndex(index) + 1] IN
       /\ revokedUrls' =
            CleanupRevoked(files, revokedUrls \cup ({removedFile.preview} \ {NoUrl}))
       /\ progressIntervals' = ClearAllIntervals(Without(progressIntervals, removedFile.name))
       /\ files' = RemoveAt(files, RemovedIndex(index))
       /\ analytics' = NewAnalytics(files', history)
       /\ storage' = [storage EXCEPT !.fileRenamerAnalytics =
                        SavedAnalytics(@, analytics, analytics')]
       /\ uploadProgress' = Without(uploadProgress, removedFile.name)
       /\ toast' = Toast("success", "Removed " \o removedFile.name)
  /\ UNCHANGED <<baseFileName, selectedFileType, history, error, nextUrl, runs>>

HandleBaseNameChange(value) ==
  /\ ~uncaught
  /\ ops > 0
  /\ ops' = ops - 1
  /\ last' = Step("baseNameChange", value)
  /\ UNCHANGED week
  /\ UNCHANGED <<analytics, storage, uncaught>>
  /\ baseFileName' = SanitizeBaseName(value)
  /\ error' = Null
  /\ toast' = NoToast
  /\ UNCHANGED <<files, selectedFileType, history, uploadProgress, progressIntervals,
                 revokedUrls, nextUrl, runs>>

\* the filter buttons: shown when the list is not empty; a group's button is
\* shown when the group is not empty
SetSelectedFileType(t) ==
  /\ ~uncaught
  /\ ops > 0
  /\ Len(files) > 0
  /\ t = "all" \/ (t \in GroupNames /\ Len(fileGroups(files, t)) > 0)
  /\ ops' = ops - 1
  /\ last' = Step("setSelectedFileType", t)
  /\ UNCHANGED week
  /\ UNCHANGED <<analytics, storage, uncaught>>
  /\ selectedFileType' = t
  /\ toast' = NoToast
  /\ UNCHANGED <<files, baseFileName, history, error, uploadProgress,
                 progressIntervals, revokedUrls, nextUrl, runs>>

----------------------------------------------------------------------------
(* handleRename *)

\* the HistoryEntry of the record at zero-based position `index` of the selection
HistoryEntry(file, base, index) ==
  [oldName |-> file.name,
   newName |-> NewName(base, index, Extension(file.name)),
   fileType |-> file.type]

\* mutant: the new entries are put behind the entries kept
PushHistoryBehind(historyEntries, prev) ==
  SubSeq(prev, 1, Min(HISTORY_KEEP, Len(prev))) \o historyEntries

\* [...historyEntries, ...prev.slice(0, 49)]
PushHistory(historyEntries, prev) ==
  historyEntries \o SubSeq(prev, 1, Min(HISTORY_KEEP, Len(prev)))

\* mutant: every record of the list is renamed, by its position in the list
RenamedFilesWholeList(fs, idx, base) ==
  [p \in 1..Len(fs) |->
     [fs[p] EXCEPT !.newName = NewName(base, p - 1, Extension(fs[p].name))]]

\* mutant: the numbering goes on after the records that already have a name
RenamedFilesRunningNumber(fs, idx, base) ==
  [p \in 1..Len(fs) |->
     IF p \notin Range(idx) THEN fs[p]
     ELSE [fs[p] EXCEPT !.newName =
             NewName(base,
                     IndexOf(idx, p)
                       + Cardinality({q \in 1..Len(fs) : fs[q].newName # Undefined}),
                     Extension(fs[p].name))]]

\* files.map(...): a record of the selection gets its name from its position
\* in the selection, any other record is returned as it is
RenamedFiles(fs, idx, base) ==
  [p \in 1..Len(fs) |->
     IF p \notin Range(idx) THEN fs[p]
     ELSE [fs[p] EXCEPT !.newName =
             NewName(base, IndexOf(idx, p), Extension(fs[p].name))]]

\* mutant: the check of the base name is missing
RenameErrorNoBaseCheck(base, idx) ==
  IF Len(idx) = 0 THEN "No files to rename." ELSE ""

\* the validation of handleRename: the message of the error toast, "" when
\* the rename goes ahead
RenameError(base, idx) ==
  IF base = "" THEN "Please enter a base name for the files."
  ELSE IF Len(idx) = 0 THEN "No files to rename."
  ELSE ""

HandleRename ==
  /\ ~uncaught
  /\ ops > 0
  /\ ops' = ops - 1
  /\ last' = Step("rename", 0)
  /\ UNCHANGED week
  /\ UNCHANGED uncaught
  /\ LET idx == filteredFiles(files, selectedFileType) IN
       IF RenameError(baseFileName, idx) # "" THEN
         /\ toast' = Toast("error", RenameError(baseFileName, idx))
         /\ UNCHANGED <<files, history, error, progressIntervals, revokedUrls,
                        analytics, storage>>
       ELSE
         /\ history' = PushHistory(
              [k \in 1..Len(idx) |-> HistoryEntry(files[idx[k]], baseFileName, k - 1)],
              history)
         /\ files' = RenamedFiles(files, idx, baseFileName)
         /\ analytics' = NewAnalytics(files', history')
         /\ storage' = [storage EXCEPT
                          !.fileRenameHistory = SaveHistory(history'),
                          !.fileRenamerAnalytics = SavedAnalytics(@, analytics, analytics')]
         /\ progressIntervals' = ClearAllIntervals(progressIntervals)
         /\ revokedUrls' = CleanupRevoked(files, revokedUrls)
         /\ error' = Null
         /\ toast' = Toast("success", "Renamed " \o ToString(Len(idx)) \o " files successfully!")
  /\ UNCHANGED <<baseFileName, selectedFileType, uploadProgress, nextUrl, runs>>

----------------------------------------------------------------------------
(* handleDownload: an asynchronous run.  Progress values of uploadProgress  *)
(* are kept in hundredths of a percent.                                    *)

\* Math.min(NaN, 99) when totalSize is 0
NaN == -1

\* a function with one key set: {...prev, [key]: value}
Put(f, key, value) ==
  [k \in DOMAIN f \cup {key} |-> IF k = key THEN value ELSE f[k]]

\* k * r = q * t + m with 0 <= m < t, for 0 <= r < t, by doubling
RECURSIVE QuotRem(_, _, _)
QuotRem(k, r, t) ==
  IF k = 0 THEN [q |-> 0, m |-> 0]
  ELSE LET h == QuotRem(k \div 2, r, t)
           d == IF 2 * h.m >= t THEN [q |-> 2 * h.q + 1, m |-> 2 * h.m - t]
                ELSE [q |-> 2 * h.q, m |-> 2 * h.m]
           a == IF k % 2 = 0 THEN d ELSE [q |-> d.q, m |-> d.m + r]
       IN IF a.m >= t THEN [q |-> a.q + 1, m |-> a.m - t] ELSE a

\* Math.min((processedSize / totalSize) * 100, 99), in hundredths, rounded down
CollectProgress(processedSize, totalSize) ==
  IF totalSize = 0 THEN NaN
  ELSE IF processedSize >= totalSize THEN 9900
  ELSE Min(QuotRem(10000, processedSize, totalSize).q, 9900)

\* 99 + metadata.percent / 100, in hundredths
GenerateProgress(percent) == 9900 + percent

\* the percentages zip.generateAsync reports to its callback
GenPercents == {50, 100}

\* mutant: the slice is one record longer than chunkSize
ChunkOneMore(n, i) == {k \in 1..n : i < k /\ k <= i + chunkSize + 1}

\* filteredFiles.slice(i, i + chunkSize), as one-based positions of the snapshot
Chunk(n, i) == {k \in 1..n : i < k /\ k <= i + chunkSize}

\* file.newName || `${baseFileName}_${filteredFiles.indexOf(file) + 1}.${extension}`
\* for the record at one-based position k of the run's filteredFiles
EntryName(run, k) ==
  IF run.snap[k].newName # Undefined /\ run.snap[k].newName # ""
  THEN run.snap[k].newName
  ELSE NewName(run.base, k - 1, Extension(run.snap[k].name))

\* zip.file(name, data): adds the entry, replacing an entry of the same name
ZipFile(zip, name, data) == Put(zip, name, data)

\* handleDownload up to its first await, with at most `limit` runs explored
StartDownload(limit) ==
  /\ ~uncaught
  /\ ops > 0
  /\ ops' = ops - 1
  /\ last' = Step("download", 0)
  /\ UNCHANGED week
  /\ UNCHANGED <<analytics, storage, uncaught>>
  /\ LET snap == Selection(files, selectedFileType) IN
       IF baseFileName = "" THEN
         /\ toast' = Toast("error", "Please enter a base name for the files.")
         /\ UNCHANGED <<uploadProgress, runs>>
       ELSE IF Len(snap) = 0 THEN
         /\ toast' = Toast("error", "Please add some files first.")
         /\ UNCHANGED <<uploadProgress, runs>>
       ELSE
         /\ Len(runs) < limit
         /\ toast' = Toast("loading", "Preparing files for download...")
         /\ uploadProgress' = Put(uploadProgress, "download", 0)
         /\ runs' = Append(runs,
              [pc |-> "reading", snap |-> snap, base |-> baseFileName,
               idx |-> filteredFiles(files, selectedFileType),
               i |-> 0, pending |-> Chunk(Len(snap), 0), zip |-> <<>>,
               processedSize |-> 0, totalSize |-> SumSizes(snap),
               genPercent |-> 0, filename |-> "", resetPending |-> FALSE])
  /\ UNCHANGED <<files, baseFileName, selectedFileType, history, error,
                 progressIntervals, revokedUrls, nextUrl>>

HandleDownload == StartDownload(MaxRuns)

\* a read of the current chunk resolves: the rest of the mapped async function
\* runs, and when it was the chunk's last read Promise.all resolves and the
\* loop goes on to the next chunk, or to zip.generateAsync
ReadDone(r, k) ==
  /\ r \in 1..Len(runs)
  /\ k \in runs[r].pending
  /\ runs[r].snap[k].readable
  /\ last' = Step("readDone", <<r, k>>)
  /\ UNCHANGED week
  /\ UNCHANGED <<analytics, storage, uncaught>>
  /\ LET run == runs[r]
         file == run.snap[k]
         processed == run.processedSize + file.size
         left == run.pending \ {k}
         n == Len(run.snap)
         read == [run EXCEPT !.zip = ZipFile(run.zip, EntryName(run, k), file.data),
                             !.processedSize = processed,
                             !.pending = left]
     IN
       /\ uploadProgress' =
            Put(uploadProgress, "download", CollectProgress(processed, run.totalSize))
       /\ runs' = [runs EXCEPT ![r] =
            IF run.pc = "reading" /\ left = {} THEN
              IF run.i + chunkSize < n
              THEN [read EXCEPT !.i = run.i + chunkSize,
                                !.pending = Chunk(n, run.i + chunkSize)]
              ELSE [read EXCEPT !.pc = "generating"]
            ELSE read]
  /\ UNCHANGED <<files, baseFileName, selectedFileType, history, error, toast,
                 progressIntervals, revokedUrls, nextUrl, ops>>

\* mutant: the rejection of a read is swallowed, the run goes on
AfterRejectSwallowed(pc) == pc

\* where handleDownload is after a read rejected: the first rejection of a
\* chunk rejects Promise.all and leaves the try block for the catch block
AfterReject(pc) == IF pc = "reading" THEN "failed" ELSE pc

\* a read rejects: the mapped function throws, Promise.all rejects at the first
\* rejection and the catch block of handleDownload runs; later rejections of
\* the same chunk are ignored
ReadFail(r, k) ==
  /\ r \in 1..Len(runs)
  /\ k \in runs[r].pending
  /\ ~runs[r].snap[k].readable
  /\ last' = Step("readFail", <<r, k>>)
  /\ UNCHANGED week
  /\ UNCHANGED <<analytics, storage, uncaught>>
  /\ LET run == runs[r] IN
       /\ runs' = [runs EXCEPT ![r] =
            [run EXCEPT !.pending = run.pending \ {k},
                        !.pc = AfterReject(run.pc)]]
       /\ IF run.pc = "reading" THEN
            /\ toast' = Toast("error", "Failed to process file " \o run.snap[k].name)
            /\ uploadProgress' = Put(uploadProgress, "download", 0)
          ELSE UNCHANGED <<toast, uploadProgress>>
  /\ UNCHANGED <<files, baseFileName, selectedFileType, history, error,
                 progressIntervals, revokedUrls, nextUrl, ops>>

\* zip.generateAsync calls its progress callback with a growing percentage
GenerateCallback(r, percent) ==
  /\ r \in 1..Len(runs)
  /\ runs[r].pc = "generating"
  /\ percent > runs[r].genPercent
  /\ last' = Step("generateCallback", <<r, percent>>)
  /\ UNCHANGED week
  /\ UNCHANGED <<analytics, storage, uncaught>>
  /\ runs' = [runs EXCEPT ![r].genPercent = percent]
  /\ uploadProgress' = Put(uploadProgress, "download", GenerateProgress(percent))
  /\ UNCHANGED <<files, baseFileName, selectedFileType, history, error, toast,
                 progressIntervals, revokedUrls, nextUrl, ops>>

\* mutant: a finished download also resets the base name
GenerateDoneResetsBase(r) ==
  /\ r \in 1..Len(runs)
  /\ runs[r].pc = "generating"
  /\ last' = Step("generateDone", <<r, 0>>)
  /\ runs' = [runs EXCEPT ![r].pc = "done",
                          ![r].filename = runs[r].base \o "_files.zip",
                          ![r].resetPending = TRUE]
  /\ error' = Null
  /\ baseFileName' = ""
  /\ toast' = Toast("success", "Files downloaded successfully!")
  /\ UNCHANGED <<files, selectedFileType, history, uploadProgress,
                 progressIntervals, revokedUrls, nextUrl, ops, analytics,
                 storage, week, uncaught>>

\* zip.generateAsync resolves: the archive is downloaded under
\* `${baseFileName}_files.zip` and the progress reset is scheduled
GenerateDone(r) ==
  /\ r \in 1..Len(runs)
  /\ runs[r].pc = "generating"
  /\ last' = Step("generateDone", <<r, 0>>)
  /\ UNCHANGED week
  /\ UNCHANGED <<analytics, storage, uncaught>>
  /\ runs' = [runs EXCEPT ![r].pc = "done",
                          ![r].filename = runs[r].base \o "_files.zip",
                          ![r].resetPending = TRUE]
  /\ error' = Null
  /\ toast' = Toast("success", "Files downloaded successfully!")
  /\ UNCHANGED <<files, baseFileName, selectedFileType, history, uploadProgress,
                 progressIntervals, revokedUrls, nextUrl, ops>>

\* setTimeout(() => setUploadProgress(... download: 0), 1000) fires
ResetDownloadProgress(r) ==
  /\ r \in 1..Len(runs)
  /\ runs[r].resetPending
  /\ last' = Step("resetDownloadProgress", <<r, 0>>)
  /\ UNCHANGED week
  /\ UNCHANGED <<analytics, storage, uncaught>>
  /\ runs' = [runs EXCEPT ![r].resetPending = FALSE]
  /\ uploadProgress' = Put(uploadProgress, "download", 0)
  /\ UNCHANGED <<files, baseFileName, selectedFileType, history, error, toast,
                 progressIntervals, revokedUrls, nextUrl, ops>>

\* the clock passes into the next week (getWeekStartDate() reads the clock)
WeekBegins ==
  /\ ~uncaught
  /\ week = CurrentWeek
  /\ week' = NextWeekStart
  /\ last' = Step("weekBegins", 0)
  /\ UNCHANGED <<files, baseFileName, selectedFileType, history, error, toast,
                 uploadProgress, progressIntervals, revokedUrls, nextUrl, runs,
                 analytics, storage, uncaught, ops>>

----------------------------------------------------------------------------
(* Specifications *)

\* the continuations of the first `limit` runs
DownloadStepsOf(limit) ==
  \E r \in 1..limit :
    \/ \E k \in 1..(MAX_FILES + 1) : ReadDone(r, k)
    \/ \E k \in 1..(MAX_FILES + 1) : ReadFail(r, k)
    \/ \E percent \in GenPercents : GenerateCallback(r, percent)
    \/ GenerateDone(r)
    \/ ResetDownloadProgress(r)

DownloadSteps == DownloadStepsOf(MaxRuns)

\* small inputs: every batch of at most MaxBatch pool files, every grid position
Next ==
  \/ \E b \in Batches : OnDrop(b)
  \/ HandleClearAll
  \/ \E index \in 0..MAX_FILES : HandleRemoveFile(index)
  \/ \E value \in BaseInputs : HandleBaseNameChange(value)
  \/ \E t \in GroupNames \cup {"all"} : SetSelectedFileType(t)
  \/ HandleRename
  \/ HandleDownload
  \/ DownloadSteps

Spec == Init /\ [][Next]_vars

\* large inputs: batches around MAX_FILES of plain text files, one base name,
\* removal of the first card only
NextLimit ==
  \/ \E b \in LimitBatches : OnDrop(b)
  \/ HandleClearAll
  \/ HandleRemoveFile(0)
  \/ HandleBaseNameChange("v")
  \/ \E t \in {"all", "documents"} : SetSelectedFileType(t)
  \/ HandleRename
  \/ HandleDownload
  \/ DownloadSteps

SpecLimit == InitWith(MaxOpsLimit, NoItem, NoItem) /\ [][NextLimit]_vars

\* two text files of one extension and of different groups, one base name:
\* few inputs, explored deeper
ArchiveBatches == {SubSeq(Pool, 2, 3), SubSeq(Pool, 7, 7)}

NextArchive ==
  \/ \E b \in ArchiveBatches : OnDrop(b)
  \/ HandleClearAll
  \/ HandleRemoveFile(0)
  \/ HandleBaseNameChange("v")
  \/ \E t \in {"all", "others"} : SetSelectedFileType(t)
  \/ HandleRename
  \/ HandleDownload
  \/ DownloadSteps

SpecArchive == InitWith(MaxOpsArchive, NoItem, NoItem) /\ [][NextArchive]_vars

\* the inputs of the archive specification, started with a ledger that an
\* earlier session stored
InitLedger ==
  \E n \in StoredSizes :
    InitWith(MaxOpsLedger, IF n = 0 THEN NoItem ELSE JsonItem(StoredLedger(n)), NoItem)

SpecLedger == InitLedger /\ [][NextArchive]_vars

\* batches of more than chunkSize files: all readable, or with an unreadable
\* file in the first chunk
Spoiled(batch, k) == [j \in 1..Len(batch) |-> IF j = k THEN Pool[7] ELSE batch[j]]

ChunkBatches == {Uniform(ChunkBatchLen), Spoiled(Uniform(ChunkBatchLen), 2)}

NextChunks ==
  \/ \E b \in ChunkBatches : OnDrop(b)
  \/ HandleClearAll
  \/ HandleRemoveFile(0)
  \/ HandleBaseNameChange("v")
  \/ \E t \in {"all", "documents"} : SetSelectedFileType(t)
  \/ HandleRename
  \/ HandleDownload
  \/ DownloadSteps

SpecChunks == InitWith(MaxOpsChunks, NoItem, NoItem) /\ [][NextChunks]_vars

\* an analytics snapshot as an earlier session stored it
StoredSnapshot(weekStart) ==
  [weekStartDate |-> weekStart, totalFiles |-> 2, totalRenames |-> 1,
   fileTypes |-> [f \in {"text"} |-> 2], averageFileSize |-> <<800, 2>>,
   totalDownloads |-> 1]

\* the week before the current one
PastWeek == "2026-10-25"

\* the items found in local storage at startup
StartupHistories == {NoItem, CorruptItem, JsonItem(StoredLedger(1))}
StartupSnapshots ==
  {NoItem, CorruptItem, JsonItem(StoredSnapshot(CurrentWeek)),
   JsonItem(StoredSnapshot(PastWeek))}

InitStartup ==
  \E h \in StartupHistories : \E a \in StartupSnapshots :
    InitWith(MaxOpsStartup, h, a)

NextStartup == NextArchive \/ WeekBegins

SpecStartup == InitStartup /\ [][NextStartup]_vars

\* two downloads that overlap: one batch of two readable files, or an
\* unreadable one
OverlapBatches == {SubSeq(Pool, 2, 3), SubSeq(Pool, 7, 7)}

NextOverlap ==
  \/ \E b \in OverlapBatches : OnDrop(b)
  \/ HandleClearAll
  \/ HandleRemoveFile(0)
  \/ HandleBaseNameChange("v")
  \/ \E t \in {"all", "others"} : SetSelectedFileType(t)
  \/ HandleRename
  \/ StartDownload(MaxRunsOverlap)
  \/ DownloadStepsOf(MaxRunsOverlap)

SpecOverlap == InitWith(MaxOpsOverlap, NoItem, NoItem) /\ [][NextOverlap]_vars

\* single files over the extensions of getFileType's table, in lower and upper
\* case, other extensions, names without an extension, with and without a type
\* supplied by the browser
TypeNames ==
  {"a.jpg", "b.JPEG", "c.png", "d.gif", "e.mp4", "f.webm", "g.mp3", "h.wav",
   "i.pdf", "j.doc", "k.docx", "l.xls", "m.XLSX", "n.txt", "o.tar.gz",
   "README", "pdf"}

TypeInputs == {"", "text/html"}

TypeBatches ==
  {<<RawFile(n, 100, t, "D", TRUE)>> : n \in TypeNames, t \in TypeInputs}
    \cup {SubSeq(Pool, 7, 7)}

NextTypes ==
  \/ \E b \in TypeBatches : OnDrop(b)
  \/ HandleClearAll
  \/ HandleRemoveFile(0)
  \/ HandleBaseNameChange("v")
  \/ \E t \in GroupNames \cup {"all"} : SetSelectedFileType(t)
  \/ HandleRename
  \/ HandleDownload
  \/ DownloadSteps

SpecTypes == InitWith(MaxOpsTypes, NoItem, NoItem) /\ [][NextTypes]_vars

NextIntake ==
  \/ \E b \in IntakeBatches : OnDrop(b)
  \/ HandleClearAll
  \/ HandleRemoveFile(0)
  \/ HandleBaseNameChange("v")
  \/ \E t \in {"all", "images", "documents"} : SetSelectedFileType(t)
  \/ HandleRename
  \/ HandleDownload
  \/ DownloadSteps

SpecIntake == InitWith(MaxOpsIntake, NoItem, NoItem) /\ [][NextIntake]_vars

----------------------------------------------------------------------------
(* Properties.  A step of a handler is recognised by last'.op; idx is the   *)
(* filtered selection the handler works on, as positions of files.         *)

CurrentIdx == filteredFiles(files, selectedFileType)

\* the substring after the last "." of a name, "" when the name has no "."
AfterLastDot(name) ==
  IF \A i \in 1..Len(name) : CharAt(name, i) # "." THEN ""
  ELSE LET d == CHOOSE i \in 1..Len(name) :
                  /\ CharAt(name, i) = "."
                  /\ \A j \in (i + 1)..Len(name) : CharAt(name, j) # "."
       IN SubSeq(name, d + 1, Len(name))

\* C1: in every reachable state the record list holds at most MAX_FILES
\* records, also after several batches dropped one after another.
C1_AtMostMaxFiles == Len(files) <= MAX_FILES

\* C2: when the list holds c records and a batch of b files with c + b > 20
\* is dropped, onDrop leaves the list unchanged and sets the count-limit error.
C2_OverLimitBatchRejected ==
  [][(last'.op = "onDrop" /\ Len(files) + Len(last'.arg) > MAX_FILES)
       => (files' = files /\ error' = CountLimitError)]_vars

\* C3: no record of the list is larger than MAX_FILE_SIZE, and a dropped file
\* of exactly MAX_FILE_SIZE bytes is appended to the list when the count limit
\* is not hit.
C3_SizeLimit ==
  [][/\ \A p \in 1..Len(files') : files'[p].size <= MAX_FILE_SIZE
     /\ (last'.op = "onDrop" /\ Len(files) + Len(last'.arg) <= MAX_FILES)
          => \A k \in 1..Len(last'.arg) :
               last'.arg[k].size = MAX_FILE_SIZE
                 => \E p \in (Len(files) + 1)..Len(files') :
                      /\ files'[p].data = last'.arg[k].data
                      /\ files'[p].name = last'.arg[k].name
                      /\ files'[p].size = MAX_FILE_SIZE]_vars

\* C3 witness: a batch with a file of exactly MAX_FILE_SIZE and a larger one
\* was dropped, and the list holds the former.
C3_Witness ==
  /\ last.op = "onDrop"
  /\ \E k \in 1..Len(last.arg) : last.arg[k].size = MAX_FILE_SIZE
  /\ \E k \in 1..Len(last.arg) : last.arg[k].size > MAX_FILE_SIZE
  /\ \E p \in 1..Len(files) : files[p].size = MAX_FILE_SIZE

\* C4: a rename with non-empty base B over a non-empty selection gives the
\* record at zero-based position i of the selection the name
\* B_(i+1).ext, ext being the part of its original name after the last "."
\* ("" when there is none).
C4_SequentialNames ==
  [][(last'.op = "rename" /\ baseFileName # "" /\ Len(CurrentIdx) > 0)
       => \A k \in 1..Len(CurrentIdx) :
            files'[CurrentIdx[k]].newName =
              baseFileName \o "_" \o ToString(k) \o "."
                \o AfterLastDot(files[CurrentIdx[k]].name)]_vars

\* what follows the prefix B_(i+1). in a produced name
SuffixAfter(name, prefix) == SubSeq(name, Len(prefix) + 1, Len(name))

\* C5: the extension that handleRename puts into a new name, and that
\* handleDownload puts into the default entry name of a record without a new
\* name, is the substring of the original name after its last ".", and is
\* empty when the original name has no ".".
C5_ExtensionAfterLastDot ==
  [][/\ (last'.op = "rename" /\ baseFileName # "" /\ Len(CurrentIdx) > 0)
          => \A k \in 1..Len(CurrentIdx) :
               SuffixAfter(files'[CurrentIdx[k]].newName,
                           baseFileName \o "_" \o ToString(k) \o ".")
                 = AfterLastDot(files[CurrentIdx[k]].name)
     /\ last'.op = "readDone"
          => LET r == last'.arg[1]
                 k == last'.arg[2]
                 prefix == runs[r].base \o "_" \o ToString(k) \o "."
             IN runs[r].snap[k].newName = Undefined
                  => \E n \in DOMAIN runs'[r].zip :
                       /\ runs'[r].zip[n] = runs[r].snap[k].data
                       /\ StartsWith(n, prefix)
                       /\ SuffixAfter(n, prefix) = AfterLastDot(runs[r].snap[k].name)]_vars

\* C6: the ledger never holds more than 50 entries, and the entries a rename
\* keeps of the former ledger are its newest ones, in their order.
C6_HistoryBounded ==
  [][/\ Len(history') <= 50
     /\ history' # history
          => \E n \in 0..Len(history') :
               /\ Len(history') - n <= Len(history)
               /\ SubSeq(history', n + 1, Len(history'))
                    = SubSeq(history, 1, Len(history') - n)]_vars

\* C7: handleRename with an empty base name or an empty filtered selection
\* changes neither the record list nor the ledger nor any other state; it
\* only emits an error notification.
C7_RejectedRenameChangesNothing ==
  [][(last'.op = "rename" /\ (baseFileName = "" \/ Len(CurrentIdx) = 0))
       => /\ files' = files
          /\ history' = history
          /\ toast'.type = "error"
          /\ UNCHANGED <<baseFileName, selectedFileType, error, uploadProgress,
                         progressIntervals, revokedUrls, runs, analytics,
                         storage>>]_vars

\* C7 witness: handleRename ran with an empty base name on a non-empty list.
C7_Witness ==
  /\ last.op = "rename"
  /\ baseFileName = ""
  /\ Len(files) > 0
  /\ toast.type = "error"

\* C8: handleRename leaves every record outside the filtered selection as it
\* was, keeps the number and the order of the records, and changes no field
\* but newName of the records it renames.
C8_RenameFrame ==
  [][last'.op = "rename"
       => /\ Len(files') = Len(files)
          /\ \A p \in 1..Len(files) :
               /\ p \notin Range(CurrentIdx) => files'[p] = files[p]
               /\ [files'[p] EXCEPT !.newName = files[p].newName] = files[p]]_vars

\* C8 witness: a rename under an active type filter gave names to the
\* selection while a record outside it keeps the name of an earlier rename.
C8_Witness ==
  /\ last.op = "rename"
  /\ toast.type = "success"
  /\ selectedFileType # "all"
  /\ \E p \in 1..Len(files) : p \notin Range(CurrentIdx) /\ files[p].newName # Undefined
  /\ \E p \in Range(CurrentIdx) : files[p].newName # Undefined

\* C9: a second handleRename right after a first one, with the same base name
\* and the same filtered selection, leaves every record's newName as the
\* first one set it.
C9_RenameIdempotent ==
  [][(last.op = "rename" /\ last'.op = "rename"
        /\ baseFileName # "" /\ Len(CurrentIdx) > 0)
       => \A p \in 1..Len(files) : files'[p].newName = files[p].newName]_vars

\* C9 witness: two successful renames in a row over a selection of at least
\* two records.
C9_Witness ==
  /\ last.op = "rename"
  /\ last.prevOp = "rename"
  /\ toast.type = "success"
  /\ Len(CurrentIdx) >= 2
  /\ \A p \in Range(CurrentIdx) : files[p].newName # Undefined

\* C10: a successful handleDownload over a selection of k records that all
\* carry a newName produces an archive of exactly k entries, one per record,
\* named by the record's newName and holding the record's bytes.
C10_OneEntryPerRecord ==
  \A r \in 1..Len(runs) :
    (runs[r].pc = "done"
       /\ \A k \in 1..Len(runs[r].snap) : runs[r].snap[k].newName # Undefined)
      => /\ Cardinality(DOMAIN runs[r].zip) = Len(runs[r].snap)
         /\ \A k \in 1..Len(runs[r].snap) :
              /\ runs[r].snap[k].newName \in DOMAIN runs[r].zip
              /\ runs[r].zip[runs[r].snap[k].newName] = runs[r].snap[k].data
DownloadOps ==
  {"readDone", "readFail", "generateCallback", "generateDone", "resetDownloadProgress"}

\* C11: when a read of a record rejects during handleDownload, the error
\* notification names the failing file and the record list and the ledger are
\* unchanged; from then on the run starts no later chunk of reads, generates
\* no archive and triggers no download.
C11_ReadFailureAborts ==
  [][/\ (last'.op = "readFail" /\ runs[last'.arg[1]].pc = "reading")
          => LET r == last'.arg[1]
                 k == last'.arg[2]
             IN /\ runs'[r].pc = "failed"
                /\ toast'.type = "error"
                /\ Includes(toast'.message, runs[r].snap[k].name)
     /\ last'.op \in DownloadOps => (files' = files /\ history' = history)
     /\ \A r \in 1..Len(runs) :
          runs[r].pc = "failed"
            => /\ runs'[r].pc = "failed"
               /\ runs'[r].i = runs[r].i
               /\ runs'[r].pending \subseteq runs[r].pending
               /\ runs'[r].filename = ""
               /\ ~runs'[r].resetPending]_vars

\* C11 witness: a run over more than one chunk failed in its first chunk, the
\* other reads of that chunk have completed, and the records after the chunk
\* were never read.
C11_Witness ==
  \E r \in 1..Len(runs) :
    /\ runs[r].pc = "failed"
    /\ Len(runs[r].snap) > chunkSize
    /\ runs[r].i = 0
    /\ runs[r].pending = {}
    /\ Cardinality(DOMAIN runs[r].zip) = chunkSize - 1
    /\ toast.type = "error"

\* C12: handleRemoveFile for the card at a position of the displayed
\* (filtered) grid removes exactly the record shown there, revokes its preview
\* handle, and unregisters the progress timer and the progress entry kept
\* under its name.
C12_RemovesDisplayedRecord ==
  [][last'.op = "removeFile"
       => LET shown == CurrentIdx[last'.arg + 1] IN
            /\ files' = RemoveAt(files, shown - 1)
            /\ files[shown].preview # NoUrl => files[shown].preview \in revokedUrls'
            /\ files[shown].name \notin DOMAIN progressIntervals'
            /\ files[shown].name \notin DOMAIN uploadProgress']_vars

\* the group of a type when the first matching rule wins: image/, video/,
\* audio/, the document keywords, others
FirstMatch(t) ==
  IF StartsWith(t, "image/") THEN "images"
  ELSE IF StartsWith(t, "video/") THEN "videos"
  ELSE IF StartsWith(t, "audio/") THEN "audio"
  ELSE IF \E w \in {"pdf", "word", "excel", "text/plain"} : Includes(t, w) THEN "documents"
  ELSE "others"

\* the groups of fileGroups that hold the record at position p
GroupsOf(p) == {g \in GroupNames : p \in Range(fileGroups(files, g))}

\* C13: every record of the list is in exactly one of the groups images,
\* videos, audio, documents, others of fileGroups, the group of the first
\* matching rule.
C13_GroupsPartition ==
  \A p \in 1..Len(files) : GroupsOf(p) = {FirstMatch(files[p].type)}

\* the names of the files of a batch that satisfy `keep`, in batch order
NamesOf(batch, keep(_)) ==
  LET sel == SelectSeq(batch, keep) IN [k \in 1..Len(sel) |-> sel[k].name]

\* C14: when a dropped batch holds both files larger than MAX_FILE_SIZE and
\* acceptable files and the count limit is not hit, exactly the acceptable
\* files are appended to the list, in their batch order, and the error
\* message lists the names of the oversized files.
C14_OversizedFilteredIndividually ==
  [][(/\ last'.op = "onDrop"
      /\ Len(files) + Len(last'.arg) <= MAX_FILES
      /\ \E k \in 1..Len(last'.arg) : last'.arg[k].size > MAX_FILE_SIZE
      /\ \E k \in 1..Len(last'.arg) : last'.arg[k].size <= MAX_FILE_SIZE)
       => LET ok == SelectSeq(last'.arg, LAMBDA f : f.size <= MAX_FILE_SIZE)
              big == NamesOf(last'.arg, LAMBDA f : f.size > MAX_FILE_SIZE)
          IN /\ Len(files') = Len(files) + Len(ok)
             /\ SubSeq(files', 1, Len(files)) = files
             /\ \A k \in 1..Len(ok) :
                  /\ files'[Len(files) + k].name = ok[k].name
                  /\ files'[Len(files) + k].data = ok[k].data
                  /\ files'[Len(files) + k].size = ok[k].size
             /\ error' # Null
             /\ \A k \in 1..Len(big) : Includes(error', big[k])
             /\ \A k \in 1..Len(ok) : ~Includes(error', ok[k].name)]_vars

\* C14 witness: a batch with an oversized file between two acceptable ones
\* was dropped on a non-empty list, and the two acceptable files are the last
\* records of the list.
C14_Witness ==
  /\ last.op = "onDrop"
  /\ Len(last.arg) = 3
  /\ last.arg[2].size > MAX_FILE_SIZE
  /\ Len(files) > 2
  /\ files[Len(files) - 1].name = last.arg[1].name
  /\ files[Len(files)].name = last.arg[3].name
  /\ error = OversizeError(last.arg[2].name)

\* the entries of the archive blob pack.zip: one directory and three files
PackZipEntries ==
  << [name |-> "docs/", dir |-> TRUE], [name |-> "docs/x.txt", dir |-> FALSE],
     [name |-> "y.txt", dir |-> FALSE], [name |-> "z.txt", dir |-> FALSE] >>

\* an archive blob, detected by its extension or its declared type
IsArchiveBlob(file) ==
  ToLowerCase(AfterLastDot(file.name)) = "zip" \/ file.type = "application/zip"

\* the number of records a dropped file is to give: one per non-directory
\* entry for an archive blob, one for any other file
RecordsDue(file) ==
  IF IsArchiveBlob(file)
  THEN Len(SelectSeq(PackZipEntries, LAMBDA e : ~e.dir))
  ELSE 1

\* C15: dropping an archive blob (.zip) with m non-directory entries and any
\* number of directory entries adds exactly m records to the list, one per
\* non-directory entry.
C15_ArchiveEntriesBecomeRecords ==
  [][(/\ last'.op = "onDrop"
      /\ Len(last'.arg) = 1
      /\ IsArchiveBlob(last'.arg[1])
      /\ last'.arg[1].size <= MAX_FILE_SIZE
      /\ Len(files) + RecordsDue(last'.arg[1]) <= MAX_FILES)
       => /\ Len(files') = Len(files) + RecordsDue(last'.arg[1])
          /\ \A e \in Range(SelectSeq(PackZipEntries, LAMBDA x : ~x.dir)) :
               \E p \in (Len(files) + 1)..Len(files') : files'[p].name = e.name]_vars

MissingOrCorrupt(item) == item.kind \in {"null", "corrupt"}

\* C16: at startup, a missing or corrupt stored value of the ledger
\* (fileRenameHistory) or of the analytics snapshot (fileRenamerAnalytics)
\* leads to the empty ledger, respectively to the default analytics, and to
\* no uncaught error.
C16_StartupDegrades ==
  last.op = "init"
    => /\ MissingOrCorrupt(last.arg.fileRenameHistory)
            => (~uncaught /\ history = <<>>)
       /\ MissingOrCorrupt(last.arg.fileRenamerAnalytics)
            => (~uncaught /\ analytics = NewAnalytics(<<>>, history))

\* C17: handleClearAll on a non-empty list leaves the list, the base name and
\* the progress map empty and the filter at "all", revokes the preview of
\* every record, cancels and unregisters every progress timer and leaves the
\* ledger unchanged; on an empty list it only emits an error notification.
C17_ClearAllFrame ==
  [][last'.op = "clearAll"
       => IF Len(files) > 0 THEN
            /\ files' = <<>>
            /\ baseFileName' = ""
            /\ uploadProgress' = <<>>
            /\ selectedFileType' = "all"
            /\ Previews(files) \subseteq revokedUrls'
            /\ progressIntervals' = <<>>
            /\ history' = history
            /\ storage'.fileRenameHistory = storage.fileRenameHistory
          ELSE
            /\ toast'.type = "error"
            /\ UNCHANGED <<files, baseFileName, selectedFileType, history, error,
                           uploadProgress, progressIntervals, revokedUrls, nextUrl,
                           runs, analytics, storage>>]_vars

\* C17 witness: handleClearAll emptied a list right after a rename: a base
\* name was set, a record had a preview, and the ledger has entries.
C17_Witness ==
  /\ last.op = "clearAll"
  /\ last.prevOp = "rename"
  /\ files = <<>>
  /\ baseFileName = ""
  /\ toast.type = "success"
  /\ revokedUrls # {}
  /\ history # <<>>

\* C18: a handleDownload run has at most 5 reads in flight, all of one chunk,
\* and the reads of the next chunk start only with the completion of the last
\* read of the chunk before, in whatever order the reads complete.
C18_ChunksSequential ==
  [][\A r \in 1..Len(runs') :
       /\ Cardinality(runs'[r].pending) <= 5
       /\ \A k \in runs'[r].pending : runs'[r].i < k /\ k <= runs'[r].i + 5
       /\ (r <= Len(runs) /\ runs'[r].pending \ runs[r].pending # {})
            => /\ last'.op = "readDone"
               /\ runs[r].pending = {last'.arg[2]}
               /\ runs[r].pending \cap runs'[r].pending = {}]_vars

\* C18 witness: the reads of the second chunk are in flight, and the read of
\* the first chunk that completed last was the one of its first record.
C18_Witness ==
  /\ last.op = "readDone"
  /\ last.arg[2] = 1
  /\ \E r \in 1..Len(runs) :
       /\ runs[r].pc = "reading"
       /\ runs[r].i = chunkSize
       /\ runs[r].pending # {}

\* the number of files of a batch that are not oversized
AdmissibleCount(batch) == Len(SelectSeq(batch, LAMBDA f : f.size <= MAX_FILE_SIZE))

\* C19: onDrop rejects a batch with the count-limit error only if the records
\* of the list plus the files of the batch that are not oversized exceed 20;
\* a batch whose admissible files fit under the limit is admitted.
C19_CountOverAdmissibleFiles ==
  [][last'.op = "onDrop"
       => /\ error' = CountLimitError
               => Len(files) + AdmissibleCount(last'.arg) > MAX_FILES
          /\ Len(files) + AdmissibleCount(last'.arg) <= MAX_FILES
               => Len(files') = Len(files) + AdmissibleCount(last'.arg)]_vars

\* the base names a rename can have used: the non-empty stored base names
RenameBases == {SanitizeBaseName(v) : v \in BaseInputs} \ {""}

\* C20: in every reachable state, every record with a newName has
\* newName = B_(p+1).ext, with B the base name of a rename, ext the part of its
\* original name after the last "." and p its zero-based position in the
\* current filtered selection (for the records that are in it); also after
\* records were removed or added or the filter was changed.
C20_NameFollowsPosition ==
  \A q \in 1..Len(files) :
    (files[q].newName # Undefined /\ q \in Range(CurrentIdx))
      => \E B \in RenameBases :
           files[q].newName =
             B \o "_" \o ToString(IndexOf(CurrentIdx, q) + 1) \o "."
               \o AfterLastDot(files[q].name)

\* C21: handleDownload stores a record without a newName under the default
\* name B_(q+1).ext, q being the record's zero-based position in the full
\* record list (not in the filtered selection), and a record with a newName
\* under that newName.
C21_DefaultNameByListPosition ==
  [][last'.op = "readDone"
       => LET r == last'.arg[1]
              k == last'.arg[2]
              file == runs[r].snap[k]
              name == IF file.newName # Undefined THEN file.newName
                      ELSE runs[r].base \o "_" \o ToString(runs[r].idx[k]) \o "."
                             \o AfterLastDot(file.name)
          IN /\ name \in DOMAIN runs'[r].zip
             /\ runs'[r].zip[name] = file.data]_vars

\* C22: after a successful handleRename of n records, the first n entries of
\* the ledger are the (oldName, newName, fileType) triples of the renamed
\* records in selection order, and the entries after them are a prefix of the
\* former ledger, unmodified and in the same order.
C22_LedgerPrepended ==
  [][(last'.op = "rename" /\ toast'.type = "success")
       => LET n == Len(CurrentIdx) IN
            /\ Len(history') >= n
            /\ \A k \in 1..n :
                 /\ history'[k].oldName = files[CurrentIdx[k]].name
                 /\ history'[k].newName = files'[CurrentIdx[k]].newName
                 /\ history'[k].fileType = files[CurrentIdx[k]].type
            /\ Len(history') - n <= Len(history)
            /\ \A j \in 1..(Len(history') - n) : history'[n + j] = history[j]]_vars

\* C22 witness: a rename of two records on a stored ledger that was
\* truncated: its first HISTORY_KEEP entries follow the two new ones.
C22_Witness ==
  /\ last.op = "rename"
  /\ toast.type = "success"
  /\ Len(CurrentIdx) = 2
  /\ Len(history) = HISTORY_KEEP + 2
  /\ history[1].oldName = files[CurrentIdx[1]].name
  /\ history[3] = StoredLedger(HISTORY_KEEP + 1)[1]

\* C23: for every record larger than 1 MiB that is still in the list, the
\* progress timer started at intake keeps firing until the progress reaches
\* 100: either its timer is registered and not cancelled, or its progress is
\* 100 (10000 hundredths) and its timer is unregistered.
C23_ProgressTimerRuns ==
  \A p \in 1..Len(files) :
    files[p].size > PROGRESS_THRESHOLD
      => LET name == files[p].name IN
           \/ /\ name \in DOMAIN progressIntervals
              /\ progressIntervals[name].active
           \/ /\ name \notin DOMAIN progressIntervals
              /\ name \in DOMAIN uploadProgress
              /\ uploadProgress[name] = 10000

\* a build is under way: handleDownload is collecting bytes or serializing
Building(run) == run.pc \in {"reading", "generating"}

\* the exposed download percentage, in hundredths; nothing is exposed (0)
\* when the progress map has no download entry
DownloadPercent(progress) ==
  IF "download" \in DOMAIN progress THEN progress["download"] ELSE 0

\* C24: from the start of an archive build to its completion the exposed
\* download percentage never decreases, is at most 99 while bytes are
\* collected and between 99 and 100 during serialization, in every
\* interleaving of read completions and handler invocations, a second
\* handleDownload started during the first included.
C24_DownloadPercentMonotone ==
  [][\A r \in 1..Len(runs) :
       Building(runs[r])
         => /\ DownloadPercent(uploadProgress') >= DownloadPercent(uploadProgress)
            /\ runs'[r].pc = "reading" => DownloadPercent(uploadProgress') <= 9900
            /\ (runs[r].pc = "generating" /\ runs'[r].pc = "generating")
                 => /\ DownloadPercent(uploadProgress') >= 9900
                    /\ DownloadPercent(uploadProgress') <= 10000]_vars

\* the group the extension table gives a lower-cased extension
GroupOfExtension(ext) ==
  IF ext \in {"jpg", "jpeg", "png", "gif"} THEN "images"
  ELSE IF ext \in {"mp4", "webm"} THEN "videos"
  ELSE IF ext \in {"mp3", "wav"} THEN "audio"
  ELSE IF ext \in {"pdf", "doc", "docx", "xls", "xlsx"} THEN "documents"
  ELSE "others"

\* C25: the type of an ingested record is the type the browser supplied when
\* that is not empty; otherwise it is inferred from the lower-cased extension:
\* jpg/jpeg/png/gif go to images, mp4/webm to videos, mp3/wav to audio,
\* pdf/doc/docx/xls/xlsx to documents, and every other extension resolves to
\* application/octet-stream and goes to others.
C25_TypeResolution ==
  [][(last'.op = "onDrop" /\ Len(files') = Len(files) + Len(last'.arg))
       => \A k \in 1..Len(last'.arg) :
            LET raw == last'.arg[k]
                p == Len(files) + k
                group == GroupOfExtension(ToLowerCase(AfterLastDot(raw.name)))
            IN IF raw.type # "" THEN files'[p].type = raw.type
               ELSE /\ p \in Range(fileGroups(files', group))
                    /\ group = "others" => files'[p].type = "application/octet-stream"]_vars

\* C26: every update of the analytics snapshot, that is every change of the
\* record list or of the ledger, replaces the record stored under
\* fileRenamerAnalytics by the new snapshot: the stored record equals the
\* latest snapshot of the state.
C26_AnalyticsPersisted ==
  [][(files' # files \/ history' # history)
       => storage'.fileRenamerAnalytics = JsonItem(analytics')]_vars

\* C27: a preview handle is revoked only when its record is removed or the
\* list is cleared: in every reachable state no record of the list has a
\* preview handle that was revoked, also after a later batch was ingested or
\* handleRename replaced the list.
C27_LivePreviewsNotRevoked ==
  \A p \in 1..Len(files) :
    files[p].preview # NoUrl => files[p].preview \notin revokedUrls

\* the download entry of the progress map is 0
DownloadAtZero == "download" \in DOMAIN uploadProgress /\ uploadProgress["download"] = 0

\* C28: once a handleDownload run has ended in failure, the exposed download
\* percentage is 0 and stays 0 until the next build starts, also when other
\* reads of the failing chunk complete after the failure was handled.
C28_ZeroAfterFailure ==
  [][(/\ last'.op \in DownloadOps
      /\ \A r \in 1..Len(runs') : runs'[r].pc = "failed")
       => DownloadAtZero']_vars

\* C29: handleDownload, at its start and at each of its continuations,
\* whether it succeeds or fails, leaves the record list with every newName,
\* the ledger, the base name and the filter unchanged; of the progress map it
\* changes the download entry only.
C29_DownloadFrame ==
  [][last'.op \in DownloadOps \cup {"download"}
       => /\ files' = files
          /\ history' = history
          /\ baseFileName' = baseFileName
          /\ selectedFileType' = selectedFileType
          /\ UNCHANGED <<progressIntervals, revokedUrls, analytics, storage>>
          /\ \A key \in (DOMAIN uploadProgress \cup DOMAIN uploadProgress') \ {"download"} :
               /\ key \in DOMAIN uploadProgress
               /\ key \in DOMAIN uploadProgress'
               /\ uploadProgress'[key] = uploadProgress[key]]_vars

\* C29 witness: a download under a type filter completed, over records that
\* carry names of earlier renames, with the ledger not empty.
C29_Witness ==
  /\ last.op = "generateDone"
  /\ baseFileName # ""
  /\ selectedFileType # "all"
  /\ history # <<>>
  /\ \E p \in 1..Len(files) : files[p].newName # Undefined
  /\ \E r \in 1..Len(runs) : runs[r].pc = "done" /\ runs[r].filename # ""

\* no illegal character, no white space at either end
CleanBase(s) ==
  /\ \A i \in 1..Len(s) : CharAt(s, i) \notin IllegalChars
  /\ s # "" => CharAt(s, 1) \notin WhiteSpace /\ CharAt(s, Len(s)) \notin WhiteSpace

\* the part of a produced name before its last underscore
BasePart(name) ==
  LET us == {i \in 1..Len(name) : CharAt(name, i) = "_"}
  IN  IF us = {} THEN name
      ELSE SubSeq(name, 1, (CHOOSE i \in us : \A j \in us : j <= i) - 1)

\* C30: in every reachable state the stored base name has none of the
\* characters < > : " / \ | ? * and no white space at either end, and so does
\* the base part of every newName of the list and of every archive file name
\* {baseName}_files.zip a download has produced.
C30_BaseNameClean ==
  /\ CleanBase(baseFileName)
  /\ \A p \in 1..Len(files) :
       files[p].newName # Undefined => CleanBase(BasePart(files[p].newName))
  /\ \A r \in 1..Len(runs) :
       /\ CleanBase(runs[r].base)
       /\ runs[r].filename # ""
            => /\ runs[r].filename = runs[r].base \o "_files.zip"
               /\ CleanBase(BasePart(runs[r].filename))

\* C30 witness: the value " w/ " was entered and stored as "w"; a rename and
\* a download then produced names from it.
C30_Witness ==
  /\ baseFileName = SanitizeBaseName(" w/ ")
  /\ baseFileName = "w"
  /\ \E p \in 1..Len(files) :
       files[p].newName # Undefined /\ BasePart(files[p].newName) = "w"
  /\ \E r \in 1..Len(runs) : runs[r].filename = "w_files.zip"

====
